---- MODULE Spec2Model ----
(***************************************************************************)
(* Model of custom_components/rpi_gpio/valve.py: the RPi GPIO valve        *)
(* platform (setup_platform), the valve entity RPiGPIOValve and its        *)
(* restoring subclass PersistentRPiGPIOValve.                              *)
(*                                                                         *)
(* Every handler is a list of statements (GPIO write, blocking sleep,      *)
(* assignment to _state, async_write_ha_state) executed one statement per  *)
(* step by the task that holds the host's event-loop thread.  A handler    *)
(* gives the thread up only where its code awaits something that can       *)
(* suspend; time.sleep blocks the thread and does not.                     *)
(***************************************************************************)
EXTENDS Integers, Sequences, FiniteSets, TLC

\* ------------------------------------------------------------------ bounds
\* Number of valve definitions in the configuration block.
NumValves == 2

Valves == 1..NumValves

\* ------------------------------------------------------- program constants
\* sleep(0.5) after the polarity writes, in milliseconds.
SettleMs == 500
\* sleep(0.1) inside _pulse, in milliseconds.
PulseMs == 100
\* homeassistant.components.valve.STATE_OPEN, the "open" sentinel.
STATE_OPEN == "open"
STATE_CLOSED == "closed"
CONF_VALVES == "valves"
CONF_RED_WIRE_PORT == "red_wire_port"
CONF_BLACK_WIRE_PORT == "black_wire_port"

\* A pin no write_output has driven since the process started.
Undriven == -1

\* Labels the restore store can hold for an entity ("none": no stored state).
Labels == {"none", STATE_OPEN, STATE_CLOSED, "unavailable"}

\* The configuration blocks tried: the two wire ports in either order, one
\* valve definition per valve, every port distinct.
WirePorts == {22, 23}
ValveDefs == [c \in Valves |-> [name |-> c, port |-> 16 + c]]
Configs ==
    { [valves |-> ValveDefs, red_wire_port |-> w[1], black_wire_port |-> w[2]] :
        w \in { x \in WirePorts \X WirePorts : x[1] # x[2] } }
AllPorts == WirePorts \cup { ValveDefs[c].port : c \in Valves }

VARIABLES
    config,     \* the validated configuration block
    platform,   \* setup_platform: "idle", "TypeError" or "registered"
    entities,   \* the controllers handed to add_entities
    kind,       \* per valve: "none", "base" (RPiGPIOValve) or "persistent"
    _state,     \* per valve: self._state
    level,      \* per port: level last written, or Undriven
    outputs,    \* ports configured by setup_output
    writer,     \* per wire port: the valve whose handler wrote it last (0: nobody)
    proc,       \* per valve: handler running or run last
    pc,         \* per valve: index of the next statement, 0 when not running
    via,        \* per valve: "direct" or "attach", who called open/close
    attach,     \* per valve: position in async_added_to_hass
    last,       \* per valve: the label async_get_last_state returned
    store,      \* per valve: the label the host keeps for the entity
    trace,      \* per valve: writes and sleeps of the handler run last
    pushed,     \* per valve: notifications of the handler run last
    lastCmd,    \* per valve: the open/close completed last, over restarts
    running,    \* the valve whose task holds the event loop, 0 when free
    snap,       \* per valve: what the open/close completed last left behind
    before,     \* per valve: _state when the handler in progress was called
    faulty,     \* whether a write_output of this run can raise
    failed      \* the valves whose handler a write_output error ended

vars == << config, platform, entities, kind, _state, level, outputs, writer,
           proc, pc, via, attach, last, store, trace, pushed, lastCmd,
           running, snap, before, faulty, failed >>

\* No open/close has completed on the valve since the process started.
NoSnap == [cmd |-> "none", state |-> FALSE, closed |-> FALSE,
           red |-> Undriven, black |-> Undriven, pin |-> Undriven]

\* --------------------------------------------------------------- accessors
\* Every controller given the valve pin of the first valve definition.
port_of_first(c) == config.valves[1].port

port(c) == config.valves[c].port
red_wire_port == config.red_wire_port
black_wire_port == config.black_wire_port

\* ------------------------------------------------------------- statements
write_output(p, v) == [t |-> "write", a |-> p, v |-> v, yields |-> FALSE]
setup_output(p) == [t |-> "setup", a |-> p, v |-> 0, yields |-> FALSE]
\* A sleep that suspends the task (asyncio.sleep) instead of blocking.
sleep_suspending(ms) == [t |-> "sleep", a |-> ms, v |-> 0, yields |-> TRUE]

\* time.sleep: blocks the thread, the event loop runs nothing else meanwhile.
sleep(ms) == [t |-> "sleep", a |-> ms, v |-> 0, yields |-> FALSE]
set_state(b) == [t |-> "set", a |-> 0, v |-> IF b THEN 1 ELSE 0, yields |-> FALSE]
async_write_ha_state == [t |-> "notify", a |-> 0, v |-> 0, yields |-> FALSE]

\* ------------------------------------------------------------ RPiGPIOValve
RPiGPIOValve__init__(c, skip_reset) ==
    << set_state(FALSE), setup_output(port(c)) >> \o
    IF ~skip_reset
    THEN << write_output(red_wire_port, 1),
            write_output(black_wire_port, 0),
            sleep(SettleMs),
            write_output(port(c), 1) >>
    ELSE << >>

\* A pulse made twice.
_pulse_twice(c) ==
    << write_output(port(c), 0), sleep(PulseMs), write_output(port(c), 1),
       write_output(port(c), 0), sleep(PulseMs), write_output(port(c), 1) >>

\* A pulse of the other sense: high, wait, low.
_pulse_active_high(c) ==
    << write_output(port(c), 1), sleep(PulseMs), write_output(port(c), 0) >>

\* A pulse that never returns the pin high.
_pulse_stays_low(c) ==
    << write_output(port(c), 0), sleep(PulseMs) >>

_pulse(c) ==
    << write_output(port(c), 0), sleep(PulseMs), write_output(port(c), 1) >>

is_closed(c) == ~ _state[c]

\* An open that pulses before the polarity is set.
async_open_valve_pulse_first(c) ==
    _pulse(c) \o
    << write_output(red_wire_port, 0),
       write_output(black_wire_port, 1),
       sleep(SettleMs),
       set_state(FALSE), async_write_ha_state >>

\* An open that relies on the polarity already on the wires.
async_open_valve_keeps_polarity(c) ==
    << sleep(SettleMs) >> \o
    _pulse(c) \o
    << set_state(FALSE), async_write_ha_state >>

async_open_valve(c) ==
    << write_output(red_wire_port, 0),
       write_output(black_wire_port, 1),
       sleep(SettleMs) >> \o
    _pulse(c) \o
    << set_state(FALSE), async_write_ha_state >>

\* A close that drives both wires high.
async_close_valve_both_high(c) ==
    << write_output(red_wire_port, 1),
       write_output(black_wire_port, 1),
       sleep(SettleMs) >> \o
    _pulse(c) \o
    << set_state(TRUE), async_write_ha_state >>

\* A close that records the new state before it touches a pin.
async_close_valve_state_first(c) ==
    << set_state(TRUE),
       write_output(red_wire_port, 1),
       write_output(black_wire_port, 0),
       sleep(SettleMs) >> \o
    _pulse(c) \o
    << async_write_ha_state >>

\* A close that notifies the host before it records the new state.
async_close_valve_notify_first(c) ==
    << write_output(red_wire_port, 1),
       write_output(black_wire_port, 0),
       sleep(SettleMs) >> \o
    _pulse(c) \o
    << async_write_ha_state, set_state(TRUE) >>

async_close_valve(c) ==
    << write_output(red_wire_port, 1),
       write_output(black_wire_port, 0),
       sleep(SettleMs) >> \o
    _pulse(c) \o
    << set_state(TRUE), async_write_ha_state >>

\* PersistentRPiGPIOValve.__init__: the base constructor with skip_reset True.
PersistentRPiGPIOValve__init__(c) == RPiGPIOValve__init__(c, TRUE)

\* The statements of the handler valve c runs (or ran last).
Body(c) ==
    CASE proc[c] = "init" /\ kind[c] = "base" -> RPiGPIOValve__init__(c, FALSE)
      [] proc[c] = "init" /\ kind[c] = "persistent" -> PersistentRPiGPIOValve__init__(c)
      [] proc[c] = "open" -> async_open_valve(c)
      [] proc[c] = "close" -> async_close_valve(c)
      [] OTHER -> << >>

\* ------------------------------------------------------------------- host
\* The state label the host derives from the entity when it is notified.
HostLabel(c) == IF is_closed(c) THEN STATE_CLOSED ELSE STATE_OPEN

\* ---------------------------------------------------------- setup_platform
\* A Python subscript: a str or an int key.
PyStr(s) == [ty |-> "str", s |-> s, i |-> 0]
PyInt(i) == [ty |-> "int", s |-> "", i |-> i]

\* list.__getitem__: a list takes int keys only (counted from 0).
list_getitem(l, key) ==
    IF key.ty = "int" /\ (key.i + 1) \in DOMAIN l
    THEN [exc |-> "none", val |-> l[key.i + 1]]
    ELSE [exc |-> IF key.ty = "int" THEN "IndexError" ELSE "TypeError",
          val |-> << >>]

\* setup_platform, whole: valves_conf is the list under "valves"; the two
\* wire ports are looked up in that list, then one persistent controller is
\* built per valve definition and the list is handed to add_entities.
setup_platform ==
    /\ platform = "idle"
    /\ running = 0
    /\ \A c \in Valves : kind[c] = "none"
    /\ LET valves_conf == config[CONF_VALVES]
           red == list_getitem(valves_conf, PyStr(CONF_RED_WIRE_PORT))
           black == list_getitem(valves_conf, PyStr(CONF_BLACK_WIRE_PORT))
       IN  IF red.exc # "none"
           THEN /\ platform' = red.exc
                /\ UNCHANGED << outputs, kind, proc, entities >>
           ELSE IF black.exc # "none"
           THEN /\ platform' = black.exc
                /\ outputs' = outputs \cup {red.val}
                /\ UNCHANGED << kind, proc, entities >>
           ELSE /\ platform' = "registered"
                /\ outputs' = outputs \cup {red.val, black.val}
                                      \cup { port(c) : c \in Valves }
                /\ kind' = [c \in Valves |-> "persistent"]
                /\ proc' = [c \in Valves |-> "init"]
                /\ entities' = Valves
    /\ UNCHANGED << config, _state, level, writer, pc, via, attach, last,
                    store, trace, pushed, lastCmd, running, snap, before,
                    faulty, failed >>

\* ------------------------------------------------------------ construction
\* A controller built directly (as a test or another caller does), class k:
\* the controllers of one run are built in the order of the valve list and
\* are of one class.
Construct(c, k) ==
    /\ platform = "idle"
    /\ running = 0
    /\ kind[c] = "none"
    /\ \A d \in Valves : d < c => kind[d] = k /\ pc[d] = 0
    /\ kind' = [kind EXCEPT ![c] = k]
    /\ proc' = [proc EXCEPT ![c] = "init"]
    /\ pc' = [pc EXCEPT ![c] = 1]
    /\ via' = [via EXCEPT ![c] = "direct"]
    /\ trace' = [trace EXCEPT ![c] = << >>]
    /\ pushed' = [pushed EXCEPT ![c] = << >>]
    /\ running' = c
    /\ UNCHANGED << config, platform, entities, _state, level, outputs, writer,
                    attach, last, store, lastCmd, snap, before, faulty, failed >>

\* ------------------------------------------------------- statement engine
Constructed(c) == kind[c] # "none" /\ proc[c] # "none" /\ (proc[c] = "init" => pc[c] = 0)
CanRun(c) == pc[c] > 0 /\ running \in {0, c}
Cur(c) == Body(c)[pc[c]]
IsLast(c) == pc[c] = Len(Body(c))

\* What every statement does besides its own effect: move on, keep or give
\* up the thread, and return to the caller after the last statement.
Step(c) ==
    /\ pc' = [pc EXCEPT ![c] = IF IsLast(c) THEN 0 ELSE pc[c] + 1]
    /\ running' = IF IsLast(c) \/ Cur(c).yields THEN 0 ELSE c
    /\ lastCmd' = IF IsLast(c) /\ proc[c] \in {"open", "close"}
                  THEN [lastCmd EXCEPT ![c] = proc[c]] ELSE lastCmd
    /\ attach' = IF IsLast(c) /\ via[c] = "attach"
                 THEN [attach EXCEPT ![c] = "done"] ELSE attach
    /\ snap' = IF IsLast(c) /\ proc[c] \in {"open", "close"}
               THEN [snap EXCEPT ![c] =
                       [cmd |-> proc[c],
                        state |-> _state'[c], closed |-> is_closed(c)',
                        red |-> level'[red_wire_port],
                        black |-> level'[black_wire_port],
                        pin |-> level'[port(c)]]]
               ELSE snap
    /\ before' = IF IsLast(c) THEN [before EXCEPT ![c] = FALSE] ELSE before
    /\ UNCHANGED << config, platform, entities, kind, proc, via, last, faulty,
                    failed >>

ExecWrite(c) ==
    /\ CanRun(c)
    /\ Cur(c).t = "write"
    /\ level' = [level EXCEPT ![Cur(c).a] = Cur(c).v]
    /\ writer' = [p \in WirePorts |-> IF p = Cur(c).a THEN c ELSE writer[p]]
    /\ trace' = [trace EXCEPT ![c] = Append(@, << "w", Cur(c).a, Cur(c).v >>)]
    /\ UNCHANGED << _state, outputs, store, pushed >>
    /\ Step(c)

ExecSleep(c) ==
    /\ CanRun(c)
    /\ Cur(c).t = "sleep"
    /\ trace' = [trace EXCEPT ![c] = Append(@, << "sleep", Cur(c).a, 0 >>)]
    /\ UNCHANGED << _state, level, outputs, writer, store, pushed >>
    /\ Step(c)

ExecSetup(c) ==
    /\ CanRun(c)
    /\ Cur(c).t = "setup"
    /\ outputs' = outputs \cup {Cur(c).a}
    /\ UNCHANGED << _state, level, writer, store, trace, pushed >>
    /\ Step(c)

ExecSetState(c) ==
    /\ CanRun(c)
    /\ Cur(c).t = "set"
    /\ _state' = [_state EXCEPT ![c] = (Cur(c).v = 1)]
    /\ UNCHANGED << level, outputs, writer, store, trace, pushed >>
    /\ Step(c)

\* async_write_ha_state: the host reads the entity now and keeps the label,
\* which is what async_get_last_state returns after the next start.
ExecNotify(c) ==
    /\ CanRun(c)
    /\ Cur(c).t = "notify"
    /\ store' = [store EXCEPT ![c] = HostLabel(c)]
    /\ pushed' = [pushed EXCEPT ![c] =
                    Append(@, [state |-> _state[c], closed |-> is_closed(c),
                               label |-> HostLabel(c), pin |-> level[port(c)]])]
    /\ UNCHANGED << _state, level, outputs, writer, trace >>
    /\ Step(c)

\* ---------------------------------------------------------- open and close
\* The host (or a caller) calls the handler: its task is ready to run.
Call(c, h) ==
    /\ running = 0
    /\ Constructed(c)
    /\ pc[c] = 0
    /\ kind[c] = "persistent" => attach[c] = "done"
    /\ proc' = [proc EXCEPT ![c] = h]
    /\ pc' = [pc EXCEPT ![c] = 1]
    /\ via' = [via EXCEPT ![c] = "direct"]
    /\ trace' = [trace EXCEPT ![c] = << >>]
    /\ pushed' = [pushed EXCEPT ![c] = << >>]
    /\ last' = [last EXCEPT ![c] = "none"]
    /\ before' = [before EXCEPT ![c] = _state[c]]
    /\ UNCHANGED << config, platform, entities, kind, _state, level, outputs,
                    writer, attach, store, lastCmd, running, snap, faulty,
                    failed >>

Open(c) == Call(c, "open")
Close(c) == Call(c, "close")

\* ---------------------------------------------- PersistentRPiGPIOValve
\* async_added_to_hass: neither awaited host call suspends (the restore data
\* is in memory), so the handler runs from its first line.  It returns when
\* there is no state; otherwise it derives _state from the label and awaits
\* the close or the open handler, which runs in the same task.  The host
\* adds the entities one after the other, in the order of the list.
async_added_to_hass(c) ==
    /\ running = 0
    /\ kind[c] = "persistent"
    /\ Constructed(c)
    /\ attach[c] = "no"
    /\ \A d \in Valves : d < c => attach[d] = "done"
    /\ last' = [last EXCEPT ![c] = store[c]]
    /\ trace' = [trace EXCEPT ![c] = << >>]
    /\ pushed' = [pushed EXCEPT ![c] = << >>]
    /\ IF last'[c] = "none"
       THEN /\ attach' = [attach EXCEPT ![c] = "done"]
            /\ UNCHANGED << _state, proc, pc, via, running, before >>
       ELSE /\ before' = [before EXCEPT ![c] = _state[c]]
            /\ _state' = [_state EXCEPT ![c] =
                            IF last'[c] = STATE_OPEN THEN FALSE ELSE TRUE]
            /\ proc' = [proc EXCEPT ![c] =
                            IF _state'[c] THEN "close" ELSE "open"]
            /\ pc' = [pc EXCEPT ![c] = 1]
            /\ via' = [via EXCEPT ![c] = "attach"]
            /\ attach' = [attach EXCEPT ![c] = "restoring"]
            /\ running' = c
    /\ UNCHANGED << config, platform, entities, kind, level, outputs, writer,
                    store, lastCmd, snap, faulty, failed >>

\* ----------------------------------------------------------------- restart
\* The host process stops and starts again: every controller is gone, no pin
\* has been driven by the new process, and the host still holds the label
\* pushed last for each entity.
Restart ==
    /\ running = 0
    /\ \A c \in Valves : pc[c] = 0 /\ attach[c] \in {"no", "done"}
    /\ platform # "idle" \/ \E c \in Valves : kind[c] # "none"
    /\ platform' = "idle"
    /\ entities' = {}
    /\ kind' = [c \in Valves |-> "none"]
    /\ _state' = [c \in Valves |-> FALSE]
    /\ level' = [p \in AllPorts |-> Undriven]
    /\ outputs' = {}
    /\ writer' = [p \in WirePorts |-> 0]
    /\ proc' = [c \in Valves |-> "none"]
    /\ pc' = [c \in Valves |-> 0]
    /\ via' = [c \in Valves |-> "direct"]
    /\ attach' = [c \in Valves |-> "no"]
    /\ last' = [c \in Valves |-> "none"]
    /\ trace' = [c \in Valves |-> << >>]
    /\ pushed' = [c \in Valves |-> << >>]
    /\ snap' = [c \in Valves |-> NoSnap]
    /\ before' = [c \in Valves |-> FALSE]
    /\ failed' = {}
    /\ UNCHANGED << config, store, lastCmd, running, faulty >>

\* ---------------------------------------------------------- specification
InitState ==
    /\ config \in Configs
    /\ platform = "idle"
    /\ entities = {}
    /\ kind = [c \in Valves |-> "none"]
    /\ _state = [c \in Valves |-> FALSE]
    /\ level = [p \in AllPorts |-> Undriven]
    /\ outputs = {}
    /\ writer = [p \in WirePorts |-> 0]
    /\ proc = [c \in Valves |-> "none"]
    /\ pc = [c \in Valves |-> 0]
    /\ via = [c \in Valves |-> "direct"]
    /\ attach = [c \in Valves |-> "no"]
    /\ last = [c \in Valves |-> "none"]
    /\ \E l \in Labels : store = [c \in Valves |-> l]
    /\ trace = [c \in Valves |-> << >>]
    /\ pushed = [c \in Valves |-> << >>]
    /\ lastCmd = [c \in Valves |-> "none"]
    /\ running = 0
    /\ snap = [c \in Valves |-> NoSnap]
    /\ before = [c \in Valves |-> FALSE]
    /\ failed = {}

\* Every write_output succeeds.
Init == InitState /\ faulty = FALSE

Next ==
    \/ setup_platform
    \/ \E c \in Valves : \E k \in {"base", "persistent"} : Construct(c, k)
    \/ \E c \in Valves : ExecWrite(c)
    \/ \E c \in Valves : ExecSleep(c)
    \/ \E c \in Valves : ExecSetup(c)
    \/ \E c \in Valves : ExecSetState(c)
    \/ \E c \in Valves : ExecNotify(c)
    \/ \E c \in Valves : Open(c)
    \/ \E c \in Valves : Close(c)
    \/ \E c \in Valves : async_added_to_hass(c)
    \/ Restart

Spec == Init /\ [][Next]_vars

\* The event loop runs a ready task: it does not leave a started handler idle.
RunTask ==
    \E c \in Valves :
        ExecWrite(c) \/ ExecSleep(c) \/ ExecSetup(c) \/ ExecSetState(c) \/ ExecNotify(c)

FairSpec == Spec /\ WF_vars(RunTask)

\* ------------------------------------------------------------- GPIO faults
\* write_output raises: nothing in the handler catches it, so the handler
\* (and the attach that awaited it) ends there, the pin keeps its level and
\* the statements after the write are not run.
WriteFails(c) ==
    /\ faulty
    /\ failed = {}
    /\ CanRun(c)
    /\ Cur(c).t = "write"
    /\ failed' = {c}
    /\ pc' = [pc EXCEPT ![c] = 0]
    /\ running' = 0
    /\ UNCHANGED << config, platform, entities, kind, _state, level, outputs,
                    writer, proc, via, attach, last, store, trace, pushed,
                    lastCmd, snap, before, faulty >>

\* The host is followed up to the first failure and over a restart after it.
RestartAfterFault == failed # {} /\ Restart

InitFault == InitState /\ faulty = TRUE

NextFault ==
    \/ failed = {} /\ Next
    \/ \E c \in Valves : WriteFails(c)
    \/ RestartAfterFault

SpecFault == InitFault /\ [][NextFault]_vars

\* ------------------------------------------------------------------ claims
IsPrefix(s, t) == Len(s) <= Len(t) /\ s = SubSeq(t, 1, Len(s))

\* Handler h is the one valve c ran last, and it has returned.
Done(c, h) == proc[c] = h /\ pc[c] = 0

ResetTrace(c) ==
    << << "w", red_wire_port, 1 >>, << "w", black_wire_port, 0 >>,
       << "sleep", 500, 0 >>, << "w", port(c), 1 >> >>
OpenTrace(c) ==
    << << "w", red_wire_port, 0 >>, << "w", black_wire_port, 1 >>,
       << "sleep", 500, 0 >>, << "w", port(c), 0 >>, << "sleep", 100, 0 >>,
       << "w", port(c), 1 >> >>
CloseTrace(c) ==
    << << "w", red_wire_port, 1 >>, << "w", black_wire_port, 0 >>,
       << "sleep", 500, 0 >>, << "w", port(c), 0 >>, << "sleep", 100, 0 >>,
       << "w", port(c), 1 >> >>

\* C1: after open() and close() calls, is_closed is true if the call completed
\* last was close() and false if it was open().
C1_IsClosedFollowsLastCall ==
    \A c \in Valves :
        /\ (Done(c, "close") /\ via[c] = "direct") => is_closed(c)
        /\ (Done(c, "open") /\ via[c] = "direct") => ~is_closed(c)

\* C2: constructing a controller with skip_reset clear writes red=1, black=0,
\* waits the settle time, writes the valve pin 1, and ends with the valve pin
\* high and is_closed false.
C2_ResetEndsOpen ==
    \A c \in Valves :
        (kind[c] = "base" /\ Done(c, "init")) =>
            /\ trace[c] = ResetTrace(c)
            /\ level[port(c)] = 1
            /\ ~is_closed(c)

\* C3: open() emits exactly red=0, black=1, settle wait, pin=0, pulse wait,
\* pin=1 and close() exactly red=1, black=0, settle wait, pin=0, pulse wait,
\* pin=1: at every step the writes made so far are the start of that trace,
\* and on return they are the whole trace.
C3_ExactTraces ==
    \A c \in Valves :
        /\ proc[c] = "open" =>
              /\ IsPrefix(trace[c], OpenTrace(c))
              /\ pc[c] = 0 => trace[c] = OpenTrace(c)
        /\ proc[c] = "close" =>
              /\ IsPrefix(trace[c], CloseTrace(c))
              /\ pc[c] = 0 => trace[c] = CloseTrace(c)

C3_Witness ==
    \E c, d \in Valves :
        /\ Done(c, "open") /\ trace[c] = OpenTrace(c)
        /\ Done(d, "close") /\ trace[d] = CloseTrace(d)

\* Attach has returned and no command has been called since.
AttachedRestored(c) == attach[c] = "done" /\ via[c] = "attach" /\ pc[c] = 0
AttachedFresh(c) == attach[c] = "done" /\ proc[c] = "init"

\* C4: on attach, the label "open" issues the open sequence and leaves
\* is_closed false; any other label issues the close sequence and leaves
\* is_closed true; no persisted state writes no pin, notifies nobody and
\* leaves is_closed false.
C4_Restoration ==
    \A c \in Valves :
        /\ (AttachedRestored(c) /\ last[c] = STATE_OPEN) =>
              trace[c] = OpenTrace(c) /\ ~is_closed(c)
        /\ (AttachedRestored(c) /\ last[c] # STATE_OPEN) =>
              trace[c] = CloseTrace(c) /\ is_closed(c)
        /\ AttachedFresh(c) =>
              trace[c] = << >> /\ pushed[c] = << >> /\ ~is_closed(c)

\* C5: initialization of a persistent controller, no persisted state
\* included, ends with the valve pin driven high and the logical state open.
C5_InitEndsReady ==
    \A c \in Valves :
        (kind[c] = "persistent" /\ AttachedFresh(c)) =>
            level[port(c)] = 1 /\ _state[c] = FALSE

\* C6: platform setup completes without error, configures the red and black
\* wire ports as outputs and registers one controller per valve definition.
C6_SetupRegistersAll ==
    platform # "idle" =>
        /\ platform = "registered"
        /\ {red_wire_port, black_wire_port} \subseteq outputs
        /\ entities = Valves
        /\ \A c \in Valves : kind[c] = "persistent"

\* C7: every completed open() or close() notifies the host exactly once, and
\* the notification is made when _state already holds the new value and the
\* valve pin is back high, so what is pushed is the state after the call.
C7_NotifyOnceAfterUpdate ==
    \A c \in Valves :
        proc[c] \in {"open", "close"} =>
            /\ Len(pushed[c]) <= 1
            /\ pc[c] = 0 => Len(pushed[c]) = 1
            /\ \A i \in DOMAIN pushed[c] :
                  /\ pushed[c][i].state = (proc[c] = "close")
                  /\ pushed[c][i].pin = 1
                  /\ pc[c] = 0 => /\ pushed[c][i].state = _state[c]
                                  /\ pushed[c][i].closed = is_closed(c)
                                  /\ pushed[c][i].pin = level[port(c)]

C7_Witness ==
    \E c, d \in Valves :
        /\ Done(c, "close") /\ Len(pushed[c]) = 1
        /\ Done(d, "open") /\ Len(pushed[d]) = 1

\* C8: the valve pin is low only after the red and black writes of the same
\* operation and the settle wait: while it is low, red and black hold the
\* opposite levels of the operation in progress.
C8_LowOnlyAfterPolarity ==
    \A c \in Valves :
        level[port(c)] = 0 =>
            /\ proc[c] \in {"open", "close"}
            /\ pc[c] > 0
            /\ Len(trace[c]) >= 4
            /\ trace[c][1] = << "w", red_wire_port, IF proc[c] = "open" THEN 0 ELSE 1 >>
            /\ trace[c][2] = << "w", black_wire_port, IF proc[c] = "open" THEN 1 ELSE 0 >>
            /\ trace[c][3] = << "sleep", 500, 0 >>
            /\ level[red_wire_port] = (IF proc[c] = "open" THEN 0 ELSE 1)
            /\ level[black_wire_port] = (IF proc[c] = "open" THEN 1 ELSE 0)

C8_Witness ==
    \E c, d \in Valves :
        /\ kind[d] # "none"
        /\ d # c
        /\ level[port(c)] = 0
        /\ proc[c] = "open"
        /\ level[red_wire_port] = 0
        /\ level[black_wire_port] = 1

\* open() has been called on one valve and close() on another, and neither
\* handler has started.
SimultaneousCalls ==
    \E c, d \in Valves :
        /\ c # d
        /\ proc[c] = "open" /\ pc[c] = 1
        /\ proc[d] = "close" /\ pc[d] = 1
        /\ running = 0

\* A valve pin is low while a wire pin holds what another valve's call wrote.
CrossPolarity ==
    \E c \in Valves :
        /\ level[port(c)] = 0
        /\ writer[red_wire_port] # c \/ writer[black_wire_port] # c

\* C9, as claimed: simultaneous open() and close() on two valves sharing the
\* wires lead to a valve pin low under the other call's polarity.
C9_CallsRace == SimultaneousCalls ~> CrossPolarity

\* C9, amended: the two handlers do not interleave; while a valve pin is low,
\* both wire pins hold what that valve's own call wrote.
C9_NoCrossPolarity == ~CrossPolarity

C9_Witness ==
    \E c, d \in Valves :
        /\ c # d
        /\ proc[c] = "open" /\ level[port(c)] = 0
        /\ proc[d] = "close" /\ pc[d] = 1

\* C10: restoration issues the sequence of the command completed last before
\* the restart (the host holding the label it derived at that notification).
C10_RestoreRepeatsLastCommand ==
    \A c \in Valves :
        (via[c] = "attach" /\ pc[c] > 0 /\ lastCmd[c] # "none") =>
            proc[c] = lastCmd[c]

\* C11: open() and close() are idempotent: when a call completes and the call
\* completed before it on the same valve was the same one, _state, is_closed
\* and the red, black and valve pin levels are those the first call left.
C11_Idempotent ==
    [][\A c \in Valves :
          (/\ pc[c] > 0 /\ pc'[c] = 0
           /\ proc[c] \in {"open", "close"}
           /\ snap[c].cmd = proc[c]
           /\ c \notin failed') =>
              /\ _state'[c] = snap[c].state
              /\ is_closed(c)' = snap[c].closed
              /\ level'[red_wire_port] = snap[c].red
              /\ level'[black_wire_port] = snap[c].black
              /\ level'[config.valves[c].port] = snap[c].pin]_vars

\* The second of two open() calls in a row has made its writes and set
\* _state; its notification, which changes none of them, is what remains.
C11_Witness ==
    \E c \in Valves :
        /\ proc[c] = "open" /\ pc[c] = Len(Body(c)) /\ Cur(c).t = "notify"
        /\ snap[c].cmd = "open"
        /\ _state[c] = snap[c].state
        /\ level[red_wire_port] = snap[c].red
        /\ level[black_wire_port] = snap[c].black
        /\ level[port(c)] = snap[c].pin

\* Where the handler run last on valve c wrote value v to its valve pin.
PinWrites(c, v) ==
    { i \in DOMAIN trace[c] : trace[c][i] = << "w", config.valves[c].port, v >> }

\* C12: with a persisted state, attach re-actuates the valve once: one low
\* write of the valve pin followed by one high write, and one notification,
\* whatever the label and the pin levels before attach.
C12_RestoreActuatesOnce ==
    \A c \in Valves :
        AttachedRestored(c) =>
            /\ Cardinality(PinWrites(c, 0)) = 1
            /\ Cardinality(PinWrites(c, 1)) = 1
            /\ \A i \in PinWrites(c, 0) : \A j \in PinWrites(c, 1) : i < j
            /\ Len(pushed[c]) = 1

C12_Witness ==
    \E c, d \in Valves :
        /\ AttachedRestored(c) /\ last[c] = STATE_OPEN
        /\ AttachedRestored(d) /\ last[d] \notin {STATE_OPEN, "none"}
        /\ Cardinality(PinWrites(c, 0)) = 1
        /\ Len(pushed[d]) = 1

BothWiresWritten ==
    level[red_wire_port] # Undriven /\ level[black_wire_port] # Undriven

\* A running handler has written the red wire and its next statement is the
\* write of the black wire.
InPolarityChange ==
    \E c \in Valves :
        /\ pc[c] > 0
        /\ Cur(c).t = "write"
        /\ Cur(c).a = black_wire_port

\* C13, as claimed: once both wire pins have been written, red and black
\* never hold the same level, observed write by write.
C13_WiresNeverEqual ==
    BothWiresWritten => level[red_wire_port] # level[black_wire_port]

\* C13, amended: they hold opposite levels except while a handler stands
\* between its red write and its black write.
C13_WiresOppositeOutsideChange ==
    (BothWiresWritten /\ ~InPolarityChange) =>
        level[red_wire_port] # level[black_wire_port]

\* An open() directly after a close() on the same valve, past its black write.
C13_Witness ==
    \E c \in Valves :
        /\ proc[c] = "open" /\ pc[c] > 0 /\ Len(trace[c]) >= 2
        /\ snap[c].cmd = "close"
        /\ level[red_wire_port] = 0
        /\ level[black_wire_port] = 1

\* The whole trace of the handler valve c runs.
FullTrace(c) == IF proc[c] = "open" THEN OpenTrace(c) ELSE CloseTrace(c)

\* A write of an open or close sequence on valve c failed: the handler is
\* over, made no write after the failing one and did not notify the host.
FailurePropagated(c) ==
    /\ pc[c] = 0
    /\ running # c
    /\ IsPrefix(trace[c], FullTrace(c))
    /\ trace[c] # FullTrace(c)
    /\ pushed[c] = << >>

\* C14, as claimed: a failing write of an open or close sequence, called
\* directly or by restoration, propagates, is not retried, notifies nobody
\* and leaves _state as it was before the operation began.
C14_FailureKeepsState ==
    \A c \in failed :
        proc[c] \in {"open", "close"} =>
            /\ FailurePropagated(c)
            /\ _state[c] = before[c]

\* C14, amended: _state is as it was when the open or close handler was
\* entered; on restoration that is the value derived from the label.
C14_FailureKeepsEntryState ==
    \A c \in failed :
        proc[c] \in {"open", "close"} =>
            /\ FailurePropagated(c)
            /\ via[c] = "direct" => _state[c] = before[c]
            /\ via[c] = "attach" => _state[c] = (last[c] # STATE_OPEN)

\* Restoration to closed failed at the write that returns the valve pin high.
C14_Witness ==
    \E c \in failed :
        /\ proc[c] = "close"
        /\ via[c] = "attach"
        /\ Len(trace[c]) = 5
        /\ level[port(c)] = 0
        /\ _state[c] = TRUE
        /\ before[c] = FALSE

\* The step is one of an operation on controller c: its construction, a call
\* of open or close, its attach, or a statement of one of these.
ActsOn(c) ==
    /\ kind'[c] # "none"
    /\ pc'[c] # pc[c] \/ attach'[c] # attach[c]

OwnPorts(c) ==
    {config.valves[c].port, config.red_wire_port, config.black_wire_port}

\* C15: a step of an operation on controller c writes only c's valve pin and
\* the two wire pins, and leaves the valve pin level and _state of every
\* other controller as they were.
C15_Frame ==
    [][\A c \in Valves :
          ActsOn(c) =>
              /\ \A p \in AllPorts : level'[p] # level[p] => p \in OwnPorts(c)
              /\ \A i \in DOMAIN trace'[c] :
                    trace'[c][i][1] = "w" => trace'[c][i][2] \in OwnPorts(c)
              /\ \A d \in Valves \ {c} :
                    /\ level'[config.valves[d].port] = level[config.valves[d].port]
                    /\ _state'[d] = _state[d]]_vars

\* Controller c has closed after controller d opened: c wrote the wires
\* last, and d's pin and state are as d's open left them.
C15_Witness ==
    \E c, d \in Valves :
        /\ c # d
        /\ Done(c, "close")
        /\ Done(d, "open")
        /\ writer[config.red_wire_port] = c
        /\ writer[config.black_wire_port] = c
        /\ _state[c] = TRUE
        /\ _state[d] = FALSE
        /\ level[config.valves[d].port] = 1
        /\ trace[d] = OpenTrace(d)

\* The statements valve c's running handler has still to execute.
Remaining(c) == { Body(c)[i] : i \in pc[c]..Len(Body(c)) }

\* An open or close of valve c is in progress.
InProgress(c) == pc[c] > 0 /\ proc[c] \in {"open", "close"}

\* C16: with every write succeeding, a valve pin is low only inside an open
\* or close that still has the write driving it high ahead, and the pin is
\* high whenever no open or close of the controller is in progress once one
\* has completed.
C16_PinLowOnlyInsidePulse ==
    \A c \in Valves :
        /\ level[config.valves[c].port] = 0 =>
              /\ InProgress(c)
              /\ running = c
              /\ write_output(config.valves[c].port, 1) \in Remaining(c)
        /\ (snap[c].cmd # "none" /\ ~InProgress(c)) =>
              level[config.valves[c].port] = 1

\* A controller that completed an open or close is inside the pulse of its
\* next one, pin low; another controller that completed one is idle.
C16_Witness ==
    \E c, d \in Valves :
        /\ c # d
        /\ snap[c].cmd # "none"
        /\ InProgress(c)
        /\ level[config.valves[c].port] = 0
        /\ snap[d].cmd # "none"
        /\ ~InProgress(d)
        /\ level[config.valves[d].port] = 1

====
